---- MODULE Spec2Model ----
(***************************************************************************)
(* A model of Lib/concurrent/futures/interpreter.py: the WorkerContext of  *)
(* InterpreterPoolExecutor.  A context owns one interpreter id and one     *)
(* results-queue id; initialize() allocates them, run() executes a pickled *)
(* task in the interpreter and reads its result back from the queue, and   *)
(* finalize() releases both.  The _interpreters and _interpqueues modules  *)
(* are extension modules outside this file: they are modelled by the       *)
(* contract the code relies on (the exceptions it catches).                *)
(***************************************************************************)
EXTENDS Integers, Sequences, FiniteSets, TLC

VARIABLES
    ctx,      \* ctx[c]: the fields of WorkerContext c, and whether it exists
    rts,      \* rts[r]: the interpreter with id r (refcount, __main__ namespace)
    chans,    \* chans[q]: the queue with id q (its items)
    frame,    \* frame[c]: the locals of the run() in progress on c
    last,     \* last[c]: how the last completed call on c ended
    calls,    \* calls[c]: the _interpreters/_interpqueues calls of the current call on c
    factory,  \* how the last prepare() ended: the (initdata, shared) of its
              \* create_context, or the exception it raised
    enc       \* how the last resolve_task() call of the pool ended

vars == <<ctx, rts, chans, frame, last, calls, factory, enc>>

----------------------------------------------------------------------------
(* Bounds of the model. *)

\* interpreters (and queues) that may be created in one behaviour
MaxCreate == 2
\* injected transient failures of one run()'s queue get that are counted
MaxRetries == 1
\* highest value the top-level counter of an interpreter may reach
MaxCount == 1

\* maxsize passed to _interpqueues.create: 0 means unbounded
maxsize == 0

None == "None"
\* the value of interpid / resultsid when the context holds no handle
NoId == 0
\* the value of initdata when there is no initializer (falsy, like None)
NoBlob == <<>>
\* the workers of a pool (max_workers of them), one context each
OneWorker == {"c1"}
TwoWorkers == {"c1", "c2"}
\* the contexts of the pool
Ctx == DOMAIN ctx
RtIds == 1..MaxCreate
ChIds == 1..MaxCreate

\* What a task's callable is.  A string is a script; "lambda" cannot be pickled;
\* "hostonly" and "mainfn" pickle by reference but cannot be resolved inside the
\* interpreter: the module of "hostonly" can be imported in the host only, and
\* "mainfn" is a function of the host's __main__.
Scripts == {"script"}
Callables == {"one", "none", "boom", "incr", "getX", "hostonly", "mainfn", "lambda"}
Fns == Scripts \cup Callables
NoArgs == <<>>
SomeArgs == <<1>>
ArgTuples == {NoArgs, SomeArgs}
NoKwargs == "{}"
\* shared mappings given to prepare(): none, an empty one, {"X": 42}
SharedX == "X42"
Shareds == {None, "empty", SharedX}

----------------------------------------------------------------------------
(* Outcomes of calls *)

\* exc_wrapper of run(): None, or the ExecutionFailed made from an excinfo
NoWrap == [set |-> FALSE, excinfo |-> None]
ExecutionFailed(excinfo) == [set |-> TRUE, excinfo |-> excinfo]

Ret(v) == [kind |-> "return", val |-> v, exc |-> None, cause |-> NoWrap]
Raise(e, c) == [kind |-> "raise", val |-> None, exc |-> e, cause |-> c]
NoCall == [op |-> "none", kind |-> "none", val |-> None, exc |-> None, cause |-> NoWrap]
Ended(op, r) == [op |-> op, kind |-> r.kind, val |-> r.val, exc |-> r.exc, cause |-> r.cause]

isinstance_str(fn) == fn \in Scripts

(* pickle.dumps / pickle.loads: a blob wraps the task; dumps fails on a       *)
(* callable that cannot be pickled, loads fails inside the interpreter on one *)
(* that cannot be resolved there.                                            *)
dumps(task) ==
    IF task[1] = "lambda" THEN Raise("PicklingError", NoWrap)
    ELSE Ret(<<"pickle", task>>)

loads(pickled) ==
    IF pickled[2][1] = "hostonly" THEN Raise("ModuleNotFoundError", NoWrap)
    ELSE IF pickled[2][1] = "mainfn" THEN Raise("AttributeError", NoWrap)
    ELSE Ret(pickled[2])

\* resolve_task without the isinstance(fn, str) branch: a script is pickled
resolve_task_pickles_script(fn, args, kwargs) ==
    dumps(<<fn, args, kwargs>>)

\* prepare.resolve_task
resolve_task(fn, args, kwargs) ==
    IF isinstance_str(fn)
    THEN Raise("TypeError", NoWrap)
    ELSE dumps(<<fn, args, kwargs>>)

\* the failure prepare() reports for initargs given to an initializer script
InvalidInitializerArgs == "ValueError: an initializer script does not take args"

\* WorkerContext.prepare: the failure, or the (initdata, shared) of create_context
prepare(initializer, initargs, shared) ==
    IF initializer # None
    THEN LET r == resolve_task(initializer, initargs, NoKwargs)
         IN  IF r.kind = "raise"
             THEN IF r.exc = "ValueError" /\ isinstance_str(initializer) /\ initargs # NoArgs
                  THEN Raise(InvalidInitializerArgs, NoWrap)
                  ELSE r
             ELSE Ret([initdata |-> r.val, shared |-> shared])
    ELSE Ret([initdata |-> NoBlob, shared |-> shared])

----------------------------------------------------------------------------
(* The _interpreters and _interpqueues modules, by their contract.  W is the *)
(* part of the state a call may change, [ctx, rts, chans, calls], with the   *)
(* faults the environment injects into the call: [faults].                   *)

Rt0 == [st |-> "free", refs |-> 0, inc |-> 0, dec |-> 0, counter |-> 0, X |-> None]
Ch0 == [st |-> "free", items |-> <<>>]

\* an interpreter that was destroyed: its namespace is gone with it
Gone(rt) == [rt EXCEPT !.st = "gone", !.counter = 0, !.X = None]

HasFree(tab) == \E i \in DOMAIN tab : tab[i].st = "free"
NewId(tab) == CHOOSE i \in DOMAIN tab :
                  /\ tab[i].st = "free"
                  /\ \A j \in DOMAIN tab : tab[j].st = "free" => i <= j

Log(W, c, name, out) == [W EXCEPT !.calls[c] = Append(@, <<name, out>>)]

\* _interpreters.create(reqrefs=True): a new interpreter with no reference yet
interp_create(W, c, r) ==
    [Log(W, c, "create", "ok") EXCEPT !.rts[r] = [Rt0 EXCEPT !.st = "alive"]]

\* _interpreters.incref
interp_incref(W, c, r) ==
    [Log(W, c, "incref", "ok") EXCEPT !.rts[r].refs = @ + 1, !.rts[r].inc = @ + 1]

\* _interpreters.decref: InterpreterNotFoundError on an interpreter that is gone;
\* an interpreter created with reqrefs is destroyed when its count drops to zero
\* [w, exc]: the world after the call and the exception it raised (None if none)
interp_decref(W, c, r) ==
    IF W.rts[r].st # "alive"
    THEN [w |-> [Log(W, c, "decref", "notfound") EXCEPT !.rts[r].dec = @ + 1],
          exc |-> "InterpreterNotFoundError"]
    ELSE IF W.rts[r].refs - 1 <= 0
    THEN [w |-> [Log(W, c, "decref", "ok") EXCEPT
                    !.rts[r] = [Gone(@) EXCEPT !.dec = @ + 1, !.refs = @ - 1]],
          exc |-> None]
    ELSE [w |-> [Log(W, c, "decref", "ok") EXCEPT
                    !.rts[r].dec = @ + 1, !.rts[r].refs = @ - 1],
          exc |-> None]

\* _interpreters.set___main___attrs(interpid, shared, restrict=True)
set___main___attrs(W, c, r, shared) ==
    [Log(W, c, "set_attrs", "ok") EXCEPT
        !.rts[r].X = IF shared = SharedX THEN "42" ELSE @]

\* _interpqueues.create(maxsize)
queue_create(W, c, q) ==
    [Log(W, c, "qcreate", "ok") EXCEPT !.chans[q] = [st |-> "open", items |-> <<>>]]

\* _interpqueues.destroy: QueueNotFoundError on a queue that is gone, and, when
\* the environment makes it fail otherwise, an error that is not the not-found
\* one, the queue staying; [w, exc]
queue_destroy(W, c, q) ==
    IF W.chans[q].st # "open"
    THEN [w |-> Log(W, c, "destroy", "notfound"), exc |-> "QueueNotFoundError"]
    ELSE IF "destroy" \in W.faults
    THEN [w |-> Log(W, c, "destroy", "err"), exc |-> "QueueError"]
    ELSE [w |-> [Log(W, c, "destroy", "ok") EXCEPT
                    !.chans[q] = [st |-> "gone", items |-> <<>>]],
          exc |-> None]

\* whether _interpqueues.put(q, obj) succeeds: the queue exists and is not full,
\* and the object can cross (sharable: the injected outcome)
put_ok(W, q, sharable) ==
    /\ q # NoId
    /\ W.chans[q].st = "open"
    /\ (maxsize > 0 => Len(W.chans[q].items) < maxsize)
    /\ sharable

put_error(W, q) ==
    IF q = NoId THEN "TypeError"
    ELSE IF W.chans[q].st # "open" THEN "QueueNotFoundError"
    ELSE IF maxsize > 0 /\ Len(W.chans[q].items) >= maxsize THEN "QueueFull"
    ELSE "NotShareableError"

\* _interpqueues.put(q, obj), when it succeeds
queue_put(W, q, obj) ==
    [W EXCEPT !.chans[q].items = Append(@, obj)]

----------------------------------------------------------------------------
(* The side of the protocol that runs inside the interpreter. *)

\* What calling the task's function does in the namespace ns of an interpreter:
\* [out: the value returned or the exception raised, counter: the counter after]
Call(fn, ns) ==
    CASE fn = "one"  -> [out |-> Ret("7"), counter |-> ns.counter]
      [] fn = "none" -> [out |-> Ret(None), counter |-> ns.counter]
      [] fn = "boom" -> [out |-> Raise("ValueError", NoWrap), counter |-> ns.counter]
      [] fn = "incr" -> [out |-> Ret(ToString(ns.counter + 1)), counter |-> ns.counter + 1]
      [] fn = "getX" -> [out |-> IF ns.X # None THEN Ret(ns.X)
                                 ELSE Raise("NameError", NoWrap),
                         counter |-> ns.counter]
      [] OTHER       -> [out |-> Raise("TypeError", NoWrap), counter |-> ns.counter]

\* The envelopes the code puts
ResultEnvelope(res) == <<res, None>>
\* an error envelope that also fills the value field
ErrorEnvelope_with_value(exc) == <<exc, exc>>
ErrorEnvelope(exc) == <<None, exc>>
\* WorkerContext._send_script_result
ScriptResultEnvelope == <<None, None>>

\* _capture_exc without its re-raise: the exception is sent and swallowed
capture_exc_swallows(W, q, exc, sharable) ==
    IF put_ok(W, q, sharable)
    THEN [w |-> queue_put(W, q, ErrorEnvelope(exc)), excinfo |-> None]
    ELSE [w |-> W, excinfo |-> put_error(W, q)]

\* WorkerContext._capture_exc, once its body has raised exc: the put of the error
\* envelope; the exception that leaves the with block is exc, or the put's own
capture_exc(W, q, exc, sharable) ==
    IF put_ok(W, q, sharable)
    THEN [w |-> queue_put(W, q, ErrorEnvelope(exc)), excinfo |-> exc]
    ELSE [w |-> W, excinfo |-> put_error(W, q)]

\* the result put as the script-result envelope, the value dropped
send_result_drops_value(W, q, res, sharable1, sharable2) ==
    IF put_ok(W, q, sharable1)
    THEN [w |-> queue_put(W, q, ScriptResultEnvelope), excinfo |-> None]
    ELSE capture_exc(W, q, put_error(W, q), sharable2)

\* The second with block of _call: the put of the result envelope
send_result(W, q, res, sharable1, sharable2) ==
    IF put_ok(W, q, sharable1)
    THEN [w |-> queue_put(W, q, ResultEnvelope(res)), excinfo |-> None]
    ELSE capture_exc(W, q, put_error(W, q), sharable2)

\* _call with a _capture_exc that does not re-raise: after the error envelope of
\* a function that raised, the second with block sends a result envelope too
call_no_reraise(W, r, q, fn, sharable1, sharable2) ==
    LET did == Call(fn, W.rts[r])
        W1 == [W EXCEPT !.rts[r].counter = did.counter]
    IN  IF did.out.kind = "raise"
        THEN LET x == capture_exc(W1, q, did.out.exc, sharable2)
             IN  send_result(x.w, q, None, sharable1, sharable2)
                     @@ [prod |-> Ended("call", did.out)]
        ELSE send_result(W1, q, did.out.val, sharable1, sharable2)
                 @@ [prod |-> Ended("call", did.out)]

\* WorkerContext._call in interpreter r
call(W, r, q, fn, sharable1, sharable2) ==
    LET did == Call(fn, W.rts[r])
        W1 == [W EXCEPT !.rts[r].counter = did.counter]
    IN  IF did.out.kind = "raise"
        THEN capture_exc(W1, q, did.out.exc, sharable2) @@ [prod |-> Ended("call", did.out)]
        ELSE send_result(W1, q, did.out.val, sharable1, sharable2)
                 @@ [prod |-> Ended("call", did.out)]

\* WorkerContext._call_pickled in interpreter r: [w, excinfo, prod], excinfo the
\* exception left unhandled in the interpreter (None if none), prod what the
\* decoding and the call produced
call_pickled(W, r, q, pickled, sharable1, sharable2) ==
    LET task == loads(pickled)
    IN  IF task.kind = "raise"
        THEN capture_exc(W, q, task.exc, sharable2) @@ [prod |-> Ended("loads", task)]
        ELSE call(W, r, q, task.val[1], sharable1, sharable2)

----------------------------------------------------------------------------
(* WorkerContext, the side that runs in the worker thread. *)

\* raised: the exception an exec of initialize() has raised, on its way to the
\* except clause of line 130
IdleFrame == [pc |-> "idle", task |-> NoBlob, exc_wrapper |-> NoWrap, init |-> FALSE,
              retries |-> 0, got |-> 0, prod |-> NoCall, raised |-> None]
\* initialize() enters its bootstrap exec (line 122)
BootFrame == [IdleFrame EXCEPT !.pc = "boot"]
\* the bootstrap exec has returned without raising
BootedFrame == [IdleFrame EXCEPT !.pc = "booted"]
\* an exec of initialize() has raised exc
ExceptFrame(exc) == [IdleFrame EXCEPT !.pc = "except", !.raised = exc]

\* finalize with both resets (lines 137-138) left out
finalize_no_reset(W, c) ==
    LET interpid == W.ctx[c].interpid
        resultsid == W.ctx[c].resultsid
        d == IF resultsid # NoId THEN queue_destroy(W, c, resultsid)
             ELSE [w |-> W, exc |-> None]
    IN  IF d.exc \notin {None, "QueueNotFoundError"} THEN d
        ELSE IF interpid = NoId THEN [w |-> d.w, exc |-> None]
        ELSE LET r == interp_decref(d.w, c, interpid)
             IN  IF r.exc \notin {None, "InterpreterNotFoundError"} THEN r
                 ELSE [w |-> r.w, exc |-> None]

\* finalize that releases whatever it finds but resets the handles only when
\* both releases succeeded (a reset after the releases instead of before)
finalize_resets_late(W, c) ==
    LET interpid == W.ctx[c].interpid
        resultsid == W.ctx[c].resultsid
        d == IF resultsid # NoId THEN queue_destroy(W, c, resultsid)
             ELSE [w |-> W, exc |-> None]
        r == IF interpid # NoId THEN interp_decref(d.w, c, interpid)
             ELSE [w |-> d.w, exc |-> None]
    IN  IF d.exc = None /\ r.exc = None
        THEN [w |-> [r.w EXCEPT !.ctx[c].resultsid = NoId, !.ctx[c].interpid = NoId],
              exc |-> None]
        ELSE [w |-> r.w, exc |-> None]

\* finalize with the reset of resultsid (line 137) left out
finalize_keeps_resultsid(W, c) ==
    LET interpid == W.ctx[c].interpid
        resultsid == W.ctx[c].resultsid
        W1 == [W EXCEPT !.ctx[c].interpid = NoId]
        d == IF resultsid # NoId THEN queue_destroy(W1, c, resultsid)
             ELSE [w |-> W1, exc |-> None]
    IN  IF d.exc \notin {None, "QueueNotFoundError"} THEN d
        ELSE IF interpid = NoId THEN [w |-> d.w, exc |-> None]
        ELSE LET r == interp_decref(d.w, c, interpid)
             IN  IF r.exc \notin {None, "InterpreterNotFoundError"} THEN r
                 ELSE [w |-> r.w, exc |-> None]

\* WorkerContext.finalize: [w, exc], exc the exception that leaves it (None if
\* none); each release is in a try that passes on its not-found error alone
finalize(W, c) ==
    LET interpid == W.ctx[c].interpid
        resultsid == W.ctx[c].resultsid
        W1 == [W EXCEPT !.ctx[c].resultsid = NoId, !.ctx[c].interpid = NoId]
        d == IF resultsid # NoId THEN queue_destroy(W1, c, resultsid)
             ELSE [w |-> W1, exc |-> None]
    IN  IF d.exc \notin {None, "QueueNotFoundError"} THEN d
        ELSE IF interpid = NoId THEN [w |-> d.w, exc |-> None]
        ELSE LET r == interp_decref(d.w, c, interpid)
             IN  IF r.exc \notin {None, "InterpreterNotFoundError"} THEN r
                 ELSE [w |-> r.w, exc |-> None]

\* WorkerContext.run up to the retrieval loop (lines 151-159):
\* [w, raised, exc_wrapper, prod]; raised is the exception that leaves run()
\* at once (None if the retrieval loop is entered)
run_exec(W, c, task, sharable1, sharable2) ==
    LET interpid == W.ctx[c].interpid
        resultsid == W.ctx[c].resultsid
    IN  IF interpid = NoId
        THEN [w |-> W, raised |-> "AssertionError", exc_wrapper |-> NoWrap, prod |-> NoCall]
        ELSE IF W.rts[interpid].st # "alive"
        THEN [w |-> Log(W, c, "exec", "notfound"), raised |-> "InterpreterNotFoundError",
              exc_wrapper |-> NoWrap, prod |-> NoCall]
        ELSE LET x == call_pickled(W, interpid, resultsid, task, sharable1, sharable2)
             IN  [w |-> Log(x.w, c, "exec", IF x.excinfo = None THEN "ok" ELSE "excinfo"),
                  raised |-> None,
                  exc_wrapper |-> IF x.excinfo # None THEN ExecutionFailed(x.excinfo)
                                  ELSE NoWrap,
                  prod |-> x.prod]

\* run() raising the exception of the envelope without "from exc_wrapper"
run_result_no_cause(obj, exc_wrapper) ==
    LET res == obj[1][1]
        exc == obj[1][2]
        unboundop == obj[2]
    IN  IF unboundop # None THEN Raise("AssertionError", NoWrap)
        ELSE IF exc # None
        THEN IF res # None \/ ~exc_wrapper.set
             THEN Raise("AssertionError", NoWrap)
             ELSE Raise(exc, NoWrap)
        ELSE Ret(res)

\* WorkerContext.run from the envelope on (lines 175-181)
run_result(obj, exc_wrapper) ==
    LET res == obj[1][1]
        exc == obj[1][2]
        unboundop == obj[2]
    IN  IF unboundop # None THEN Raise("AssertionError", NoWrap)
        ELSE IF exc # None
        THEN IF res # None \/ ~exc_wrapper.set
             THEN Raise("AssertionError", NoWrap)
             ELSE Raise(exc, exc_wrapper)
        ELSE Ret(res)

\* The except clauses of the retrieval loop (lines 165-174), in their order:
\* what the loop does with the exception of a get
IsQueueError(exc) ==
    exc \in {"QueueError", "QueueEmpty", "QueueFull", "QueueNotFoundError"}

\* the except clauses with QueueError before its subclass QueueNotFoundError
get_handler_queue_error_first(exc) ==
    IF IsQueueError(exc) THEN "continue"
    ELSE IF exc = "QueueNotFoundError" THEN "raise"
    ELSE IF exc = "ModuleNotFoundError" THEN "continue"
    ELSE "raise"

\* the except clauses without the retry on an empty queue: QueueEmpty leaves run()
get_handler_no_retry_on_empty(exc) ==
    IF exc = "QueueNotFoundError" THEN "raise"
    ELSE IF exc = "QueueEmpty" THEN "raise"
    ELSE IF IsQueueError(exc) THEN "continue"
    ELSE IF exc = "ModuleNotFoundError" THEN "continue"
    ELSE "raise"

get_handler(exc) ==
    IF exc = "QueueNotFoundError" THEN "raise"
    ELSE IF IsQueueError(exc) THEN "continue"
    ELSE IF exc = "ModuleNotFoundError" THEN "continue"
    ELSE "raise"

\* __del__ that releases nothing
del_without_finalize(W, c) ==
    [w |-> W, exc |-> None]

\* WorkerContext.__del__: [w, exc]
del(W, c) ==
    IF W.ctx[c].interpid # NoId THEN finalize(W, c)
    ELSE [w |-> W, exc |-> None]

\* the allocations taking a queue that already exists (one results queue for the
\* class) instead of creating the context's own
init_alloc_shares_queue(W1, c, fail) ==
    LET r == W1.ctx[c].interpid
        Failed(W, e) == [w |-> W, res |-> Raise(e, NoWrap), fr |-> IdleFrame]
    IN
    IF fail = "incref" THEN Failed(Log(W1, c, "incref", "err"), "InterpreterError")
    ELSE
    LET W2 == interp_incref(W1, c, r) IN
    IF fail = "qcreate" THEN Failed(Log(W2, c, "qcreate", "err"), "MemoryError")
    ELSE
    LET open == {q0 \in DOMAIN W2.chans : W2.chans[q0].st = "open"}
        q == IF open # {} THEN CHOOSE q0 \in open : TRUE ELSE NewId(W2.chans)
    IN  [w |-> IF open # {} THEN [W2 EXCEPT !.ctx[c].resultsid = q]
               ELSE [queue_create(W2, c, q) EXCEPT !.ctx[c].resultsid = q],
         res |-> [Ret(None) EXCEPT !.kind = "pending"],
         fr |-> BootFrame]

\* The try block of initialize up to the bootstrap exec (lines 117-120), interpid
\* being set: [w, res, fr]; res.kind is "pending" when the bootstrap exec of line
\* 122 is entered
init_alloc(W1, c, fail) ==
    LET r == W1.ctx[c].interpid
        Failed(W, e) == [w |-> W, res |-> Raise(e, NoWrap), fr |-> IdleFrame]
    IN
    IF fail = "incref" THEN Failed(Log(W1, c, "incref", "err"), "InterpreterError")
    ELSE
    LET W2 == interp_incref(W1, c, r) IN
    IF fail = "qcreate" THEN Failed(Log(W2, c, "qcreate", "err"), "MemoryError")
    ELSE
    LET q == NewId(W2.chans)
    IN  [w |-> [queue_create(W2, c, q) EXCEPT !.ctx[c].resultsid = q],
         res |-> [Ret(None) EXCEPT !.kind = "pending"],
         fr |-> BootFrame]

\* The bootstrap exec of initialize (line 122, _exec of lines 107-111): [w, res,
\* fr]; it raises InterpreterNotFoundError when the interpreter was destroyed
\* meanwhile and ExecutionFailed when it returns an excinfo
init_boot(W3, c, fail) ==
    LET r == W3.ctx[c].interpid
        pending == [Ret(None) EXCEPT !.kind = "pending"]
    IN
    IF W3.rts[r].st # "alive"
    THEN [w |-> Log(W3, c, "exec", "notfound"), res |-> pending,
          fr |-> ExceptFrame("InterpreterNotFoundError")]
    ELSE IF fail = "bootstrap"
    THEN [w |-> Log(W3, c, "exec", "excinfo"), res |-> pending,
          fr |-> ExceptFrame("ExecutionFailed")]
    ELSE [w |-> Log(W3, c, "exec", "ok"), res |-> pending, fr |-> BootedFrame]

\* the try block after the bootstrap exec with the injection of the shared mapping
\* left out
init_share_injects_nothing(W4, c, fail) ==
    IF W4.ctx[c].initdata # NoBlob
    THEN [w |-> W4,
          res |-> [Ret(None) EXCEPT !.kind = "pending"],
          fr |-> [IdleFrame EXCEPT !.pc = "initexec", !.task = W4.ctx[c].initdata,
                                   !.init = TRUE]]
    ELSE [w |-> W4, res |-> Ret(None), fr |-> IdleFrame]

\* The try block of initialize between the return of the bootstrap exec and the
\* entry of the initializer's exec (lines 124-129, and 151-152 of its run()):
\* [w, res, fr]; res.kind is "pending" when the initializer's exec is entered
init_share(W4, c, fail) ==
    LET r == W4.ctx[c].interpid
        Failed(W, e) == [w |-> W, res |-> Raise(e, NoWrap), fr |-> IdleFrame]
    IN
    IF W4.ctx[c].shared # None /\ fail = "inject"
    THEN Failed(Log(W4, c, "set_attrs", "err"), "InterpreterError")
    ELSE IF W4.ctx[c].shared # None /\ W4.rts[r].st # "alive"
    THEN Failed(Log(W4, c, "set_attrs", "notfound"), "InterpreterNotFoundError")
    ELSE
    LET W5 == IF W4.ctx[c].shared # None
              THEN set___main___attrs(W4, c, r, W4.ctx[c].shared)
              ELSE W4
    IN
    IF W5.ctx[c].initdata # NoBlob
    THEN [w |-> W5,
          res |-> [Ret(None) EXCEPT !.kind = "pending"],
          fr |-> [IdleFrame EXCEPT !.pc = "initexec", !.task = W5.ctx[c].initdata,
                                   !.init = TRUE]]
    ELSE [w |-> W5, res |-> Ret(None), fr |-> IdleFrame]

\* The exec of the initializer's run() (line 155 via 129): [w, res, fr]; it
\* raises InterpreterNotFoundError when the interpreter was destroyed meanwhile,
\* otherwise the retrieval loop is entered
init_exec(W5, c, sharable1, sharable2) ==
    LET x == run_exec(W5, c, W5.ctx[c].initdata, sharable1, sharable2)
        pending == [Ret(None) EXCEPT !.kind = "pending"]
    IN  IF x.raised # None
        THEN [w |-> x.w, res |-> pending, fr |-> ExceptFrame(x.raised)]
        ELSE [w |-> x.w, res |-> pending,
              fr |-> [IdleFrame EXCEPT !.pc = "get", !.task = W5.ctx[c].initdata,
                                       !.exc_wrapper = x.exc_wrapper,
                                       !.init = TRUE, !.prod = x.prod]]

\* the except clause without its finalize() call
init_except_no_finalize(W, c, res) ==
    [w |-> W, res |-> res, fr |-> IdleFrame]

\* The except clause of initialize (lines 130-132)
init_except(W, c, res) ==
    LET f == finalize(W, c)
    IN  [w |-> f.w,
         res |-> IF f.exc # None THEN Raise(f.exc, NoWrap) ELSE res,
         fr |-> IdleFrame]

\* initialize() taking an interpreter that already exists (one interpreter cached
\* for all contexts) instead of creating its own
initialize_reuses_interpreter(W, c, fail) ==
    IF W.ctx[c].interpid # NoId
    THEN [w |-> W, res |-> Raise("AssertionError", NoWrap), fr |-> IdleFrame]
    ELSE IF fail = "create"
    THEN [w |-> Log(W, c, "create", "err"), res |-> Raise("InterpreterError", NoWrap),
          fr |-> IdleFrame]
    ELSE LET cached == {r \in DOMAIN W.rts : W.rts[r].st = "alive"}
             r == IF cached # {} THEN CHOOSE r0 \in cached : TRUE ELSE NewId(W.rts)
             W1 == IF cached # {} THEN [W EXCEPT !.ctx[c].interpid = r]
                   ELSE [interp_create(W, c, r) EXCEPT !.ctx[c].interpid = r]
             b == init_alloc(W1, c, fail)
         IN  IF b.res.kind = "raise" THEN init_except(b.w, c, b.res) ELSE b

\* WorkerContext.initialize up to its bootstrap exec (lines 113-121, and the
\* except clause for a failure there); fail: the step the environment makes fail
initialize(W, c, fail) ==
    IF W.ctx[c].interpid # NoId
    THEN [w |-> W, res |-> Raise("AssertionError", NoWrap), fr |-> IdleFrame]
    ELSE IF fail = "create"
    THEN [w |-> Log(W, c, "create", "err"), res |-> Raise("InterpreterError", NoWrap),
          fr |-> IdleFrame]
    ELSE LET r == NewId(W.rts)
             W1 == [interp_create(W, c, r) EXCEPT !.ctx[c].interpid = r]
             b == init_alloc(W1, c, fail)
         IN  IF b.res.kind = "raise" THEN init_except(b.w, c, b.res) ELSE b

\* WorkerContext.initialize between the return of its bootstrap exec and the
\* entry of the initializer's exec (lines 124-129, and the except clause for a
\* failure there)
initialize_share(W, c, fail) ==
    LET b == init_share(W, c, fail)
    IN  IF b.res.kind = "raise" THEN init_except(b.w, c, b.res) ELSE b

\* How a run() that ends with res ends the call in progress on c: a run() made by
\* initialize() ends initialize(), through its except clause if it raised
end_run(W, c, fr, res) ==
    IF fr.init
    THEN IF res.kind = "raise"
         THEN LET h == init_except(W, c, res)
              IN  [w |-> h.w, last |-> Ended("initialize", h.res)]
         ELSE [w |-> W, last |-> Ended("initialize", Ret(None))]
    ELSE [w |-> W, last |-> Ended("run", res)]

----------------------------------------------------------------------------
(* The state machine. *)

NoFaults == {}
\* destroy fails with an error other than not-found
DestroyFault == {"destroy"}
World == [ctx |-> ctx, rts |-> rts, chans |-> chans, calls |-> calls,
          faults |-> NoFaults]
\* the world at the start of a call on c: its log of calls starts empty
Start(c) == [World EXCEPT !.calls[c] = <<>>]
Commit(W) ==
    /\ ctx' = W.ctx
    /\ rts' = W.rts
    /\ chans' = W.chans
    /\ calls' = W.calls

NoCtx == [life |-> "unborn", initdata |-> NoBlob, shared |-> None,
          interpid |-> NoId, resultsid |-> NoId]
NoFactory == [kind |-> "none", exc |-> None, initdata |-> NoBlob, shared |-> None]
NoEnc == [op |-> "none", kind |-> "none", exc |-> None]
EncEnded(op, r) == [op |-> op, kind |-> r.kind, exc |-> r.exc]

\* the steps of initialize() the environment may make fail: before its bootstrap
\* exec, and from it on
InitFaults == {"none", "create", "incref", "qcreate"}
BootFaults == {"none", "bootstrap"}
ShareFaults == {"none", "inject"}
\* the initializers prepare() is given
Initializers == {None, "getX", "hostonly", "mainfn", "script"}
\* the tasks the pool encodes and submits
TaskFns == {"one", "none", "boom", "incr", "getX", "hostonly", "mainfn"}

Idle(c) == ctx[c].life = "live" /\ frame[c].pc = "idle"

\* a pool with the given workers, before prepare(): no context exists yet
InitOf(workers) ==
    /\ ctx = [c \in workers |-> NoCtx]
    /\ rts = [r \in RtIds |-> Rt0]
    /\ chans = [q \in ChIds |-> Ch0]
    /\ frame = [c \in workers |-> IdleFrame]
    /\ last = [c \in workers |-> NoCall]
    /\ calls = [c \in workers |-> <<>>]
    /\ factory = NoFactory
    /\ enc = NoEnc

Init == InitOf(OneWorker)

\* WorkerContext.prepare(initializer, initargs, shared), called by the pool
Prepare(initializer, initargs, shared) ==
    /\ \E c \in Ctx : ctx[c].life = "unborn"
    /\ LET r == prepare(initializer, initargs, shared)
       IN  factory' = IF r.kind = "return"
                      THEN [kind |-> "return", exc |-> None,
                            initdata |-> r.val.initdata, shared |-> r.val.shared]
                      ELSE [NoFactory EXCEPT !.kind = "raise", !.exc = r.exc]
    /\ UNCHANGED <<ctx, rts, chans, frame, last, calls, enc>>

\* create_context() of the last prepare(): WorkerContext.__init__
CreateContext(c) ==
    /\ ctx[c].life = "unborn"
    /\ factory.kind = "return"
    /\ ctx' = [ctx EXCEPT ![c] =
                 [life |-> "live",
                  initdata |-> factory.initdata,
                  shared |-> IF factory.shared \in {None, "empty"} THEN None
                             ELSE factory.shared,
                  interpid |-> NoId,
                  resultsid |-> NoId]]
    /\ UNCHANGED <<rts, chans, frame, last, calls, factory, enc>>

\* resolve_task(fn, args, kwargs), the task encoder the pool calls on submit
Encode(fn, args) ==
    /\ enc' = EncEnded("resolve_task", resolve_task(fn, args, NoKwargs))
    /\ UNCHANGED <<ctx, rts, chans, frame, last, calls, factory>>

\* the world at the start of a call on c into which the environment injects faults
StartUnder(c, faults) == [Start(c) EXCEPT !.faults = faults]

\* the world in the middle of a call on c, under the given faults
ResumeUnder(faults) == [World EXCEPT !.faults = faults]

\* WorkerContext.initialize(), up to its bootstrap exec (line 122), which blocks
InitializeUnder(c, fail, faults) ==
    /\ Idle(c)
    /\ ctx[c].interpid # NoId \/ (HasFree(rts) /\ HasFree(chans))
    /\ LET o == initialize(StartUnder(c, faults), c, fail)
       IN  /\ Commit(o.w)
           /\ frame' = [frame EXCEPT ![c] = o.fr]
           /\ last' = [last EXCEPT ![c] = Ended("initialize", o.res)]
    /\ UNCHANGED <<factory, enc>>

\* WorkerContext.initialize()
Initialize(c, fail) == InitializeUnder(c, fail, NoFaults)

\* The bootstrap exec of initialize() (line 122) takes effect and returns
InitializeBoot(c, fail) ==
    /\ ctx[c].life = "live"
    /\ frame[c].pc = "boot"
    /\ fail # "none" => rts[ctx[c].interpid].st = "alive"
    /\ LET o == init_boot(World, c, fail)
       IN  /\ Commit(o.w)
           /\ frame' = [frame EXCEPT ![c] = o.fr]
           /\ last' = [last EXCEPT ![c] = Ended("initialize", o.res)]
    /\ UNCHANGED <<factory, enc>>

\* WorkerContext.initialize() from the return of its bootstrap exec to the entry
\* of the initializer's exec, or to its own return
InitializeShareUnder(c, fail, faults) ==
    /\ ctx[c].life = "live"
    /\ frame[c].pc = "booted"
    /\ fail = "inject" => ctx[c].shared # None
    /\ LET o == initialize_share(ResumeUnder(faults), c, fail)
       IN  /\ Commit(o.w)
           /\ frame' = [frame EXCEPT ![c] = o.fr]
           /\ last' = [last EXCEPT ![c] = Ended("initialize", o.res)]
    /\ UNCHANGED <<factory, enc>>

InitializeShare(c, fail) == InitializeShareUnder(c, fail, NoFaults)

\* The exec of the initializer (line 155) takes effect and returns
InitializeExec(c, sharable1, sharable2) ==
    /\ ctx[c].life = "live"
    /\ frame[c].pc = "initexec"
    /\ rts[ctx[c].interpid].st # "alive" => (sharable1 /\ sharable2)
    /\ LET o == init_exec(World, c, sharable1, sharable2)
       IN  /\ Commit(o.w)
           /\ frame' = [frame EXCEPT ![c] = o.fr]
           /\ last' = [last EXCEPT ![c] = Ended("initialize", o.res)]
    /\ UNCHANGED <<factory, enc>>

\* The except clause of initialize() (lines 130-132) after an exec that raised
InitializeExceptUnder(c, faults) ==
    /\ ctx[c].life = "live"
    /\ frame[c].pc = "except"
    /\ LET o == init_except(ResumeUnder(faults), c, Raise(frame[c].raised, NoWrap))
       IN  /\ Commit(o.w)
           /\ frame' = [frame EXCEPT ![c] = o.fr]
           /\ last' = [last EXCEPT ![c] = Ended("initialize", o.res)]
    /\ UNCHANGED <<factory, enc>>

InitializeExcept(c) == InitializeExceptUnder(c, NoFaults)

\* WorkerContext.run(task), up to its retrieval loop
Run(c, task, sharable1, sharable2) ==
    /\ Idle(c)
    /\ (task[2][1] = "incr" /\ ctx[c].interpid # NoId)
           => rts[ctx[c].interpid].counter < MaxCount
    /\ LET x == run_exec(Start(c), c, task, sharable1, sharable2)
       IN  /\ Commit(x.w)
           /\ IF x.raised # None
              THEN /\ frame' = [frame EXCEPT ![c] = [IdleFrame EXCEPT !.task = task]]
                   /\ last' = [last EXCEPT ![c] = Ended("run", Raise(x.raised, NoWrap))]
              ELSE /\ frame' = [frame EXCEPT ![c] =
                                   [IdleFrame EXCEPT !.pc = "get", !.task = task,
                                                     !.exc_wrapper = x.exc_wrapper,
                                                     !.prod = x.prod]]
                   /\ last' = [last EXCEPT ![c] =
                                  Ended("run", [Ret(None) EXCEPT !.kind = "pending"])]
    /\ UNCHANGED <<factory, enc>>

\* One pass of the retrieval loop of run() (lines 162-174), and, when it leaves
\* the loop, the rest of run(); fault: the transient failure the environment
\* injects into this get ("none" for none)
RunGetUnder(c, fault, faults) ==
    /\ ctx[c].life = "live"
    /\ frame[c].pc = "get"
    /\ LET q == ctx[c].resultsid
           fr == frame[c]
           exc == IF q = NoId \/ chans[q].st # "open" THEN "QueueNotFoundError"
                  ELSE IF fault # "none" THEN fault
                  ELSE IF chans[q].items = <<>> THEN "QueueEmpty"
                  ELSE None
           counted == fr.retries < MaxRetries
           W == IF exc = None
                THEN [Log(ResumeUnder(faults), c, "get", "ok") EXCEPT !.chans[q].items = Tail(@)]
                ELSE IF get_handler(exc) = "continue" THEN ResumeUnder(faults)
                ELSE Log(ResumeUnder(faults), c, "get", "notfound")
       IN  /\ fault # "none" => counted
           /\ IF exc = None
              THEN LET obj == <<Head(chans[q].items), None>>
                       e == end_run(W, c, fr, run_result(obj, fr.exc_wrapper))
                   IN  /\ Commit(e.w)
                       /\ frame' = [frame EXCEPT ![c].pc = "idle", ![c].got = @ + 1]
                       /\ last' = [last EXCEPT ![c] = e.last]
              ELSE IF get_handler(exc) = "continue"
              THEN /\ Commit(W)
                   /\ frame' = [frame EXCEPT ![c].retries =
                                   IF counted THEN @ + 1 ELSE @]
                   /\ UNCHANGED last
              ELSE LET e == end_run(W, c, fr, Raise(exc, NoWrap))
                   IN  /\ Commit(e.w)
                       /\ frame' = [frame EXCEPT ![c].pc = "idle"]
                       /\ last' = [last EXCEPT ![c] = e.last]
    /\ UNCHANGED <<factory, enc>>

\* One pass of the retrieval loop of run()
RunGet(c, fault) == RunGetUnder(c, fault, NoFaults)

\* WorkerContext.finalize() under the given faults
FinalizeUnder(c, faults) ==
    /\ Idle(c)
    /\ LET f == finalize(StartUnder(c, faults), c)
       IN  /\ Commit(f.w)
           /\ last' = [last EXCEPT ![c] =
                          Ended("finalize", IF f.exc # None THEN Raise(f.exc, NoWrap)
                                            ELSE Ret(None))]
    /\ frame' = [frame EXCEPT ![c] = IdleFrame]
    /\ UNCHANGED <<factory, enc>>

\* WorkerContext.finalize()
Finalize(c) == FinalizeUnder(c, NoFaults)

\* WorkerContext.__del__ under the given faults: the context is dropped
DelUnder(c, faults) ==
    /\ Idle(c)
    /\ LET f == del(StartUnder(c, faults), c)
       IN  /\ Commit([f.w EXCEPT !.ctx[c].life = "dead"])
           /\ last' = [last EXCEPT ![c] =
                          Ended("del", IF f.exc # None THEN Raise(f.exc, NoWrap)
                                       ELSE Ret(None))]
    /\ frame' = [frame EXCEPT ![c] = IdleFrame]
    /\ UNCHANGED <<factory, enc>>

\* WorkerContext.__del__: the context is dropped
Del(c) == DelUnder(c, NoFaults)

\* The host destroys a queue out from under its context
HostDestroyQueue(q) ==
    /\ chans[q].st = "open"
    /\ \E c \in Ctx : ctx[c].resultsid = q
    /\ chans' = [chans EXCEPT ![q] = [st |-> "gone", items |-> <<>>]]
    /\ UNCHANGED <<ctx, rts, frame, last, calls, factory, enc>>

\* The host destroys an interpreter out from under its context
HostDestroyInterp(r) ==
    /\ rts[r].st = "alive"
    /\ \E c \in Ctx : ctx[c].interpid = r
    /\ rts' = [rts EXCEPT ![r] = Gone(@)]
    /\ UNCHANGED <<ctx, chans, frame, last, calls, factory, enc>>

RunTasks == {resolve_task(fn, NoArgs, NoKwargs).val : fn \in TaskFns}
GetFaults == {"none", "QueueError", "ModuleNotFoundError"}

Next ==
    \/ \E i \in Initializers, a \in ArgTuples, s \in Shareds : Prepare(i, a, s)
    \/ \E c \in Ctx : CreateContext(c)
    \/ \E c \in Ctx, f \in InitFaults : Initialize(c, f)
    \/ \E c \in Ctx, f \in BootFaults : InitializeBoot(c, f)
    \/ \E c \in Ctx, f \in ShareFaults : InitializeShare(c, f)
    \/ \E c \in Ctx, s1, s2 \in BOOLEAN : InitializeExec(c, s1, s2)
    \/ \E c \in Ctx : InitializeExcept(c)
    \/ \E c \in Ctx, t \in RunTasks, s1, s2 \in BOOLEAN : Run(c, t, s1, s2)
    \/ \E c \in Ctx, f \in GetFaults : RunGet(c, f)
    \/ \E c \in Ctx : Finalize(c)
    \/ \E c \in Ctx : Del(c)
    \/ \E q \in ChIds : HostDestroyQueue(q)
    \/ \E r \in RtIds : HostDestroyInterp(r)

Spec == Init /\ [][Next]_vars

\* The pool's submit path beside the life of a context: the task encoder may be
\* called at any time
NextEncoder ==
    \/ \E fn \in Fns, a \in ArgTuples : Encode(fn, a)
    \/ \E i \in Initializers, a \in ArgTuples, s \in Shareds : Prepare(i, a, s)
    \/ \E c \in Ctx : CreateContext(c)
    \/ \E c \in Ctx, f \in InitFaults : Initialize(c, f)
    \/ \E c \in Ctx, f \in BootFaults : InitializeBoot(c, f)
    \/ \E c \in Ctx, f \in ShareFaults : InitializeShare(c, f)
    \/ \E c \in Ctx, s1, s2 \in BOOLEAN : InitializeExec(c, s1, s2)
    \/ \E c \in Ctx : InitializeExcept(c)
    \/ \E c \in Ctx, t \in RunTasks, s1, s2 \in BOOLEAN : Run(c, t, s1, s2)
    \/ \E c \in Ctx, f \in GetFaults : RunGet(c, f)
    \/ \E c \in Ctx : Finalize(c)

SpecEncoder == Init /\ [][NextEncoder]_vars

\* The calls whose finalize() meets a destroy that fails with an error other than
\* not-found: the context's queue exists, so that the destroy is reached
DestroyReached(c) ==
    ctx[c].resultsid # NoId /\ chans[ctx[c].resultsid].st = "open"

FinalizeFault(c) == DestroyReached(c) /\ FinalizeUnder(c, DestroyFault)
DelFault(c) == DestroyReached(c) /\ DelUnder(c, DestroyFault)
\* initialize() failing once its queue exists, the destroy of its finalize()
\* failing: after an exec that raised, and after a set___main___attrs that raised
InitializeFault(c) == DestroyReached(c) /\ InitializeExceptUnder(c, DestroyFault)
InitializeShareFault(c, fail) ==
    DestroyReached(c) /\ InitializeShareUnder(c, fail, DestroyFault)
\* the run() of the initializer ending, the destroy of the finalize() of
\* initialize()'s except clause failing if the run() raised
RunGetFault(c, fault) ==
    DestroyReached(c) /\ frame[c].init /\ RunGetUnder(c, fault, DestroyFault)

\* The life of a context as in Next, and beside it every call that runs
\* finalize() (finalize() itself, __del__, the except clause of initialize()
\* after each step that may raise once the queue exists) with a destroy that fails
\* with an error other than not-found
NextFaults ==
    \/ Next
    \/ \E c \in Ctx : FinalizeFault(c)
    \/ \E c \in Ctx : DelFault(c)
    \/ \E c \in Ctx : InitializeFault(c)
    \/ \E c \in Ctx, f \in ShareFaults : InitializeShareFault(c, f)
    \/ \E c \in Ctx, f \in GetFaults : RunGetFault(c, f)

SpecFaults == Init /\ [][NextFaults]_vars

\* A pool of two workers, each with its own context, their calls interleaved in
\* any order: no initializer and no injected failure
PoolTaskFns == {"incr", "one", "getX"}
PoolShareds == {None, SharedX}
PoolTasks == {resolve_task(fn, NoArgs, NoKwargs).val : fn \in PoolTaskFns}

NextPool ==
    \/ \E s \in PoolShareds : Prepare(None, NoArgs, s)
    \/ \E c \in Ctx : CreateContext(c)
    \/ \E c \in Ctx : Initialize(c, "none")
    \/ \E c \in Ctx : InitializeBoot(c, "none")
    \/ \E c \in Ctx : InitializeShare(c, "none")
    \/ \E c \in Ctx, t \in PoolTasks : Run(c, t, TRUE, TRUE)
    \/ \E c \in Ctx : RunGet(c, "none")
    \/ \E c \in Ctx : Finalize(c)

SpecPool == InitOf(TwoWorkers) /\ [][NextPool]_vars

----------------------------------------------------------------------------
(* Properties. *)

Range(s) == {s[i] : i \in DOMAIN s}
Did(c, name, out) == <<name, out>> \in Range(calls[c])
\* the last call on c has ended (returned or raised), and was op
Completed(c, op) == last[c].op = op /\ last[c].kind \in {"return", "raise"}

\* C1: in every state, the interpreter handle and the results-queue handle of a
\* context are both set or both empty.
C1_HandlesPaired ==
    \A c \in Ctx : (ctx[c].interpid = NoId) <=> (ctx[c].resultsid = NoId)

\* C1 witness: initialize() failed after it had allocated both handles, and left
\* both empty.
C1_Witness ==
    \E c \in Ctx :
        /\ Completed(c, "initialize") /\ last[c].kind = "raise"
        /\ Did(c, "qcreate", "ok")
        /\ ctx[c].interpid = NoId /\ ctx[c].resultsid = NoId

\* C2: when initialize() raises after the interpreter was created, finalize() has
\* run (its decref is the last call made, and the queue it created was destroyed),
\* the exception is that of the step that failed, and both handles are empty.
C2_OriginalFailure(c) ==
    IF Did(c, "incref", "err") \/ Did(c, "set_attrs", "err") THEN "InterpreterError"
    ELSE IF Did(c, "qcreate", "err") THEN "MemoryError"
    ELSE IF Did(c, "get", "notfound") THEN "QueueNotFoundError"
    ELSE IF Did(c, "exec", "notfound") \/ Did(c, "set_attrs", "notfound")
    THEN "InterpreterNotFoundError"
    ELSE IF frame[c].init THEN frame[c].exc_wrapper.excinfo
    ELSE "ExecutionFailed"

C2_InitFailureFinalizes ==
    \A c \in Ctx :
        (Completed(c, "initialize") /\ last[c].kind = "raise" /\ Did(c, "create", "ok"))
        => /\ ctx[c].interpid = NoId /\ ctx[c].resultsid = NoId
           /\ calls[c][Len(calls[c])][1] = "decref"
           /\ Did(c, "qcreate", "ok")
                 => (Did(c, "destroy", "ok") \/ Did(c, "destroy", "notfound"))
           /\ last[c].exc = C2_OriginalFailure(c)

\* C2 witness: the initializer raised inside the interpreter and initialize()
\* raised its exception, the handles being empty.
C2_Witness ==
    \E c \in Ctx :
        /\ Completed(c, "initialize") /\ last[c].kind = "raise"
        /\ frame[c].init /\ frame[c].prod.kind = "raise"
        /\ last[c].exc = "NameError"
        /\ Did(c, "decref", "ok")
        /\ ctx[c].interpid = NoId

\* C3: finalize() never raises and leaves both handles empty, and a finalize() on a
\* context whose handles are empty (a second call in a row, a context never
\* initialized) makes no destroy and no decref call and changes no interpreter
\* and no queue.
C3_FinalizeIdempotent ==
    /\ [](\A c \in Ctx :
            Completed(c, "finalize")
            => /\ last[c].kind = "return"
               /\ ctx[c].interpid = NoId /\ ctx[c].resultsid = NoId)
    /\ [][\A c \in Ctx :
            (Finalize(c) /\ ctx[c].interpid = NoId /\ ctx[c].resultsid = NoId)
            => /\ last'[c].kind = "return"
               /\ calls'[c] = <<>>
               /\ rts' = rts /\ chans' = chans
               /\ ctx'[c].interpid = NoId /\ ctx'[c].resultsid = NoId]_vars

\* C3 witness: a finalize() that found the handles empty and released nothing, on
\* a context whose interpreter an earlier finalize() had released.
C3_Witness ==
    \E c \in Ctx, r \in RtIds :
        /\ Completed(c, "finalize") /\ last[c].kind = "return"
        /\ calls[c] = <<>>
        /\ rts[r].inc = 1 /\ rts[r].dec = 1 /\ rts[r].st = "gone"

\* C4: an interpreter a context has created is decremented by it exactly once
\* when the context has let go of it and not at all while the context holds it,
\* however many finalize() and __del__ calls follow.
C4_DecrefOnce ==
    \A r \in RtIds :
        rts[r].st # "free"
        => rts[r].dec = IF \E c \in Ctx : ctx[c].interpid = r THEN 0 ELSE 1

\* C4 witness: a context that was initialized and finalized is dropped; its
\* interpreter was incremented once and decremented once.
C4_Witness ==
    \E c \in Ctx, r \in RtIds :
        /\ Completed(c, "del") /\ calls[c] = <<>>
        /\ ctx[c].life = "dead"
        /\ rts[r].inc = 1 /\ rts[r].dec = 1

\* the function of the task of c's last run() was called and returned
CallReturned(c) == frame[c].prod.op = "call" /\ frame[c].prod.kind = "return"
\* decoding the task of c's last run(), or calling its function, raised
TaskRaised(c) == frame[c].prod.op \in {"loads", "call"} /\ frame[c].prod.kind = "raise"

\* C5, as claimed: a run() of a task whose call completed without raising returns
\* exactly the value the call produced.
C5_Original ==
    \A c \in Ctx :
        (Completed(c, "run") /\ CallReturned(c))
        => (last[c].kind = "return" /\ last[c].val = frame[c].prod.val)

\* C5, amended: a run() that returns returns exactly the value the call of its task
\* produced in the context's interpreter; and a run() of a task whose call
\* completed without raising does return it when the result envelope was written
\* (the execution call reported no error) and retrieved (the get succeeded).
C5_RunReturnsValue ==
    \A c \in Ctx :
        Completed(c, "run")
        => /\ last[c].kind = "return"
                 => (CallReturned(c) /\ last[c].val = frame[c].prod.val)
           /\ (CallReturned(c) /\ Did(c, "exec", "ok") /\ Did(c, "get", "ok"))
                 => (last[c].kind = "return" /\ last[c].val = frame[c].prod.val)

\* C5 witness: a run() returned the value 7 its task's call produced, having
\* retrieved one envelope.
C5_Witness ==
    \E c \in Ctx :
        /\ Completed(c, "run") /\ last[c].kind = "return"
        /\ frame[c].task[2][1] = "one" /\ last[c].val = "7"
        /\ frame[c].got = 1

\* C6: a run() of a task that raised inside the interpreter (decoding the blob or
\* calling the function) never returns a value: it raises; and when it retrieved
\* an envelope, it raises the exception the task raised, whose cause is the
\* ExecutionFailed of the execution call.
C6_TaskFailureRaises ==
    \A c \in Ctx :
        (Completed(c, "run") /\ TaskRaised(c))
        => /\ last[c].kind = "raise"
           /\ Did(c, "get", "ok")
                 => /\ last[c].exc = frame[c].prod.exc
                    /\ last[c].cause = ExecutionFailed(frame[c].prod.exc)
                    /\ last[c].cause = frame[c].exc_wrapper

\* C6 witness: the function raised ValueError and run() raised it from the
\* ExecutionFailed.
C6_Witness ==
    \E c \in Ctx :
        /\ Completed(c, "run") /\ last[c].kind = "raise"
        /\ frame[c].prod.op = "call"
        /\ last[c].exc = "ValueError" /\ last[c].cause.set

\* the envelopes that are in a queue
Queued == {e \in UNION {Range(chans[q].items) : q \in ChIds} : TRUE}
\* the context that holds queue q
Holder(q) == {c \in Ctx : ctx[c].resultsid = q}

\* C7, as claimed: every envelope written to a queue has exactly one of its two
\* fields populated.
C7_Original ==
    \A e \in Queued : (e[1] # None) # (e[2] # None)

\* C7, amended: no envelope written to a queue has both fields populated; one with
\* the error populated is that of the exception left unhandled in the
\* interpreter; and one with both fields empty (what _send_script_result writes)
\* is written by _call exactly when the function returned None.
C7_EnvelopeFields ==
    \A q \in ChIds : \A e \in Range(chans[q].items) :
        /\ ~(e[1] # None /\ e[2] # None)
        /\ \A c \in Holder(q) :
              /\ e[2] # None => (frame[c].exc_wrapper.set
                                 /\ e[2] = frame[c].exc_wrapper.excinfo)
              /\ e[2] = None => (CallReturned(c) /\ e = ResultEnvelope(frame[c].prod.val))
              /\ e = ScriptResultEnvelope <=> (CallReturned(c) /\ frame[c].prod.val = None
                                                /\ ~frame[c].exc_wrapper.set)

\* C7 witness: the function returned None and the envelope in the queue has both
\* fields empty.
C7_Witness ==
    \E c \in Ctx :
        /\ frame[c].pc = "get" /\ CallReturned(c) /\ frame[c].prod.val = None
        /\ ctx[c].resultsid # NoId
        /\ chans[ctx[c].resultsid].items = <<ScriptResultEnvelope>>

\* the queue of c is gone: a get on it raises QueueNotFoundError
QueueGone(c) == ctx[c].resultsid = NoId \/ chans[ctx[c].resultsid].st # "open"

\* the exceptions of a get that the retrieval loop retries
TransientGetErrors == {"QueueEmpty", "QueueError", "QueueFull", "ModuleNotFoundError"}

\* C8: in the retrieval loop of run(), a pass whose get fails with a transient
\* error (QueueEmpty or another QueueError, ModuleNotFoundError) stays in the loop
\* and ends no call, and no call ever ends with a transient error of its get: a
\* call that ends with an exception of these types has retrieved it in an
\* envelope, as the exception its task left unhandled (a ModuleNotFoundError of
\* pickle.loads); a pass whose get fails with QueueNotFoundError leaves the loop
\* at once, run() raising QueueNotFoundError itself, with no cause added.
C8_RetrievalLoop ==
    /\ [](\A c \in Ctx :
            last[c].exc \in TransientGetErrors
            => /\ Did(c, "get", "ok")
               /\ TaskRaised(c) /\ frame[c].prod.exc = last[c].exc
               /\ last[c].cause = ExecutionFailed(last[c].exc))
    /\ [][\A c \in Ctx : \A f \in GetFaults :
            RunGet(c, f)
            => /\ (~QueueGone(c) /\ (f # "none" \/ chans[ctx[c].resultsid].items = <<>>))
                     => (frame'[c].pc = "get" /\ last' = last /\ chans' = chans)
               /\ QueueGone(c)
                     => /\ frame'[c].pc = "idle"
                        /\ frame'[c].retries = frame[c].retries
                        /\ last'[c].kind = "raise"
                        /\ last'[c].exc = "QueueNotFoundError"
                        /\ last'[c].cause = NoWrap]_vars

\* C8 witness: a run() retried after a transient failure of its get, then found
\* its queue gone and raised QueueNotFoundError.
C8_Witness ==
    \E c \in Ctx :
        /\ Completed(c, "run") /\ last[c].exc = "QueueNotFoundError"
        /\ frame[c].retries >= 1
        /\ Did(c, "get", "notfound")

\* C9, as claimed: whenever the execution call of a run() reported an uncaught
\* error, the run() raises to its caller.  A run() in its retrieval loop raises
\* only on an envelope or on a queue that is gone, so the claim requires one of
\* the two whenever exc_wrapper is set.
C9_ExecFailureSurfaces ==
    \A c \in Ctx :
        (frame[c].pc = "get" /\ frame[c].exc_wrapper.set)
        => (QueueGone(c) \/ chans[ctx[c].resultsid].items # <<>>)

\* C10: resolve_task on a script (fn is a string) raises TypeError, and the call
\* creates no interpreter and no queue and changes no context.
C10_ScriptTaskRejected ==
    [][\A fn \in Scripts : \A a \in ArgTuples :
          Encode(fn, a)
          => /\ enc'.kind = "raise" /\ enc'.exc = "TypeError"
             /\ ctx' = ctx /\ rts' = rts /\ chans' = chans
             /\ frame' = frame /\ last' = last]_vars

\* C10 witness: the encoder has rejected a task with TypeError while a context
\* holds its handles.
C10_Witness ==
    /\ enc.op = "resolve_task" /\ enc.kind = "raise" /\ enc.exc = "TypeError"
    /\ \E c \in Ctx : ctx[c].interpid # NoId /\ ctx[c].resultsid # NoId

\* C11, as claimed: prepare() given an initializer that is a script (a string) and
\* initargs that are not empty fails with the "an initializer script does not
\* take args" ValueError, which is not the failure resolve_task reports for a
\* script task.
C11_InvalidInitializerArgs ==
    [][\A i \in Scripts : \A s \in Shareds :
          Prepare(i, SomeArgs, s)
          => /\ factory'.kind = "raise"
             /\ factory'.exc = InvalidInitializerArgs
             /\ factory'.exc # resolve_task(i, NoArgs, NoKwargs).exc]_vars

\* the task of c's last run() is a call of fn
TaskIs(c, fn) == frame[c].task # NoBlob /\ frame[c].task[2][1] = fn

\* C12: two contexts never hold the same interpreter; a run() on a context changes
\* no interpreter but the context's own, and a task that increments the top-level
\* counter adds one to the counter of its own interpreter and returns it; a
\* counter changes by nothing else than a task or the finalize() of the context
\* that holds its interpreter.
C12_NamespacesIsolated ==
    /\ [](\A c, d \in Ctx :
            (c # d /\ ctx[c].interpid # NoId) => ctx[c].interpid # ctx[d].interpid)
    /\ [](\A c \in Ctx :
            (Completed(c, "run") /\ TaskIs(c, "incr") /\ last[c].kind = "return")
            => last[c].val = ToString(rts[ctx[c].interpid].counter))
    /\ [][\A c \in Ctx : \A t \in PoolTasks :
            (Run(c, t, TRUE, TRUE) /\ ctx[c].interpid # NoId)
            => /\ \A r \in RtIds : r # ctx[c].interpid => rts'[r] = rts[r]
               /\ rts'[ctx[c].interpid].counter =
                     rts[ctx[c].interpid].counter + (IF t[2][1] = "incr" THEN 1 ELSE 0)]_vars
    /\ [][\A r \in RtIds :
            rts'[r].counter # rts[r].counter
            => \E c \in Ctx :
                  /\ ctx[c].interpid = r
                  /\ \/ Finalize(c)
                     \/ \E t \in PoolTasks : Run(c, t, TRUE, TRUE)]_vars

\* C12 witness: each of the two contexts has run one incrementing task, in its own
\* interpreter, and each run() returned 1, each counter reading 1.
C12_Witness ==
    /\ Cardinality(Ctx) = 2
    /\ \A c \in Ctx :
          /\ Completed(c, "run") /\ TaskIs(c, "incr")
          /\ last[c].kind = "return" /\ last[c].val = "1"
          /\ ctx[c].interpid # NoId /\ rts[ctx[c].interpid].counter = 1

\* what a context's interpreter binds X to: 42 when the context was made with the
\* mapping {"X": 42}, nothing when it was made with no mapping or an empty one
BoundX(c) == IF ctx[c].shared = SharedX THEN "42" ELSE None

\* C13: while a context holds its interpreter, the interpreter's top-level
\* namespace has the bindings of the context's shared mapping and no other, from
\* before the initializer runs; so the initializer and every task that reads X
\* get 42 in a context made with {"X": 42}, and NameError in one made without.
C13_SharedInjectedFirst ==
    \A c \in Ctx :
        /\ (ctx[c].interpid # NoId /\ rts[ctx[c].interpid].st = "alive"
               /\ frame[c].pc \notin {"boot", "booted", "except"})
              => rts[ctx[c].interpid].X = BoundX(c)
        /\ (TaskIs(c, "getX") /\ frame[c].prod.op = "call")
              => frame[c].prod = Ended("call", IF ctx[c].shared = SharedX
                                                THEN Ret("42")
                                                ELSE Raise("NameError", NoWrap))

\* C13 witness: in a context made with {"X": 42} and an initializer that reads X,
\* initialize() has returned (the initializer saw X) and a later task that reads
\* X has returned 42.
C13_Witness ==
    \E c \in Ctx :
        /\ ctx[c].shared = SharedX /\ ctx[c].initdata # NoBlob
        /\ Completed(c, "run") /\ TaskIs(c, "getX") /\ ~frame[c].init
        /\ last[c].kind = "return" /\ last[c].val = "42"
        /\ Did(c, "get", "ok")

\* C14: a context dropped while it holds its handles is finalized by __del__: its
\* queue is destroyed, then its interpreter is decremented (once), and its
\* handles are empty; a context dropped with empty handles makes no call and
\* changes no queue and no interpreter.
C14_AbandonFinalizes ==
    [][\A c \in Ctx :
          Del(c)
          => IF ctx[c].interpid # NoId
             THEN /\ Len(calls'[c]) = 2
                  /\ calls'[c][1][1] = "destroy" /\ calls'[c][2][1] = "decref"
                  /\ ctx[c].resultsid # NoId
                  /\ chans'[ctx[c].resultsid].st = "gone"
                  /\ rts'[ctx[c].interpid].dec = rts[ctx[c].interpid].dec + 1
                  /\ ctx'[c].interpid = NoId /\ ctx'[c].resultsid = NoId
             ELSE calls'[c] = <<>> /\ rts' = rts /\ chans' = chans]_vars

\* C14 witness: a context that held an interpreter and a queue was dropped, and
\* __del__ has destroyed the queue and decremented the interpreter, which is gone.
C14_Witness ==
    \E c \in Ctx, r \in RtIds, q \in ChIds :
        /\ Completed(c, "del") /\ ctx[c].life = "dead"
        /\ calls[c] = <<<<"destroy", "ok">>, <<"decref", "ok">>>>
        /\ rts[r].st = "gone" /\ rts[r].dec = 1 /\ chans[q].st = "gone"
        /\ ctx[c].interpid = NoId

\* the envelope the task of c's run() in progress has written: that of the
\* exception left unhandled in the interpreter, or that of the value returned
OwnEnvelope(c) ==
    IF frame[c].exc_wrapper.set THEN ErrorEnvelope(frame[c].exc_wrapper.excinfo)
    ELSE ResultEnvelope(frame[c].prod.val)

\* C15: two contexts never hold the same queue; a run() writes to no queue but
\* its context's own, and the envelope its get retrieves from that queue is the
\* one its own task wrote, no other queue being touched; a queue holds an
\* envelope only while the run() of its own context is in progress.
C15_ChannelNotShared ==
    /\ [](\A c, d \in Ctx :
            (c # d /\ ctx[c].resultsid # NoId) => ctx[c].resultsid # ctx[d].resultsid)
    /\ [](\A q \in ChIds :
            chans[q].items # <<>>
            => \E c \in Ctx : /\ ctx[c].resultsid = q /\ frame[c].pc = "get"
                              /\ chans[q].items = <<OwnEnvelope(c)>>)
    /\ [][\A c \in Ctx : \A t \in PoolTasks :
            Run(c, t, TRUE, TRUE)
            => \A q \in ChIds : q # ctx[c].resultsid => chans'[q] = chans[q]]_vars
    /\ [][\A c \in Ctx :
            (RunGet(c, "none") /\ ~QueueGone(c) /\ chans[ctx[c].resultsid].items # <<>>)
            => /\ Head(chans[ctx[c].resultsid].items) = OwnEnvelope(c)
               /\ \A q \in ChIds : q # ctx[c].resultsid => chans'[q] = chans[q]
               /\ last'[c] = Ended("run", run_result(<<OwnEnvelope(c), None>>,
                                                     frame[c].exc_wrapper))]_vars

\* C15 witness: the run() calls of the two contexts are both in their retrieval
\* loops, each context's queue holding the envelope of its own task (7 for one,
\* the counter for the other), and the queues differ.
C15_Witness ==
    \E c, d \in Ctx :
        /\ c # d
        /\ frame[c].pc = "get" /\ frame[d].pc = "get"
        /\ TaskIs(c, "one") /\ TaskIs(d, "incr")
        /\ ctx[c].resultsid # ctx[d].resultsid
        /\ chans[ctx[c].resultsid].items = <<ResultEnvelope("7")>>
        /\ chans[ctx[d].resultsid].items = <<ResultEnvelope("1")>>

\* a finalize() call on c, whatever its destroy meets
FinalizeStep(c) == Finalize(c) \/ FinalizeFault(c)
HoldsHandles(c) == ctx[c].interpid # NoId /\ ctx[c].resultsid # NoId
HandlesEmpty(c) == ctx[c].interpid = NoId /\ ctx[c].resultsid = NoId
\* the outcomes of a release that let finalize() go on
Released == {"ok", "notfound"}

\* C16: finalize() on a context that holds its handles destroys the
\* queue first and then decrements the interpreter, passing on a not-found from
\* either, and clears the two handles after that: the handles are empty only
\* once both releases were made.
C16_ReleasesThenClears ==
    [][\A c \in Ctx :
          (FinalizeStep(c) /\ HoldsHandles(c))
          => /\ calls'[c][1][1] = "destroy"
             /\ calls'[c][1][2] \in Released
                   => (Len(calls'[c]) = 2 /\ calls'[c][2][1] = "decref"
                       /\ last'[c].kind = "return")
             /\ (ctx'[c].interpid = NoId /\ ctx'[c].resultsid = NoId)
                   => (Len(calls'[c]) = 2 /\ calls'[c][2][1] = "decref")]_vars

\* C20, first part: no interpreter is decremented more often than it was
\* incremented.
C20_NoExcessDecref == \A r \in RtIds : rts[r].dec <= rts[r].inc

\* C20, second part, for the one context of the pool: whenever both handles of
\* the context are empty, every increment of an interpreter has its decrement
\* and no queue is left open.
C20_NothingLeaks ==
    \A c \in Ctx :
        HandlesEmpty(c)
        => /\ \A r \in RtIds : rts[r].inc <= rts[r].dec
           /\ \A q \in ChIds : chans[q].st # "open"

\* C20, as claimed, for the one context of the pool: no interpreter is decremented
\* more often than it was incremented; and whenever both handles of the context
\* are empty, every interpreter it incremented has been decremented and every
\* queue it created is destroyed, whatever error a destroy has failed with.
C20_RefsBalanced == C20_NoExcessDecref /\ C20_NothingLeaks

\* the last call on c was a run() (a task's, or the initializer's inside
\* initialize()) whose execution call returned, and it has ended
RunEnded(c) ==
    \/ /\ Completed(c, "run")
       /\ Did(c, "exec", "ok") \/ Did(c, "exec", "excinfo")
    \/ Completed(c, "initialize") /\ frame[c].init

\* C17, as claimed: a run() whose execution call returned and that has ended has
\* retrieved exactly one envelope.
C17_Original ==
    \A c \in Ctx : RunEnded(c) => frame[c].got = 1

\* C17, amended: a run() whose execution call returned and that has ended has
\* retrieved exactly one envelope, unless it ended because its queue was gone
\* (QueueNotFoundError from the get), and then it has retrieved none; while it is
\* in its retrieval loop it has retrieved none.
C17_OneEnvelope ==
    \A c \in Ctx :
        /\ frame[c].got <= 1
        /\ frame[c].pc = "get" => frame[c].got = 0
        /\ RunEnded(c)
              => IF Did(c, "get", "notfound")
                 THEN frame[c].got = 0 /\ ~Did(c, "get", "ok")
                      /\ (Completed(c, "run") => last[c].exc = "QueueNotFoundError")
                 ELSE frame[c].got = 1 /\ Did(c, "get", "ok")

\* C17 witness: a run() whose execution call reported an uncaught error retried
\* its get after a transient failure, then retrieved its one envelope and raised.
C17_Witness ==
    \E c \in Ctx :
        /\ Completed(c, "run") /\ Did(c, "exec", "excinfo")
        /\ frame[c].retries >= 1
        /\ frame[c].got = 1 /\ last[c].kind = "raise" /\ last[c].cause.set

\* C18: the assertions of run() (lines 176-179) never fail: every envelope in the
\* queue of a context whose error is populated has an empty value and was written
\* by a run() whose execution call reported an uncaught error (exc_wrapper is
\* set); and no pass of the retrieval loop, whatever it retrieves, ends a call
\* with AssertionError, the marker returned with the envelope being empty.
C18_AssertionsHold ==
    /\ [](\A q \in ChIds : \A e \in Range(chans[q].items) : \A c \in Holder(q) :
            e[2] # None => (e[1] = None /\ frame[c].exc_wrapper.set))
    /\ [][\A c \in Ctx : \A f \in GetFaults :
            RunGet(c, f)
            => /\ last'[c].exc # "AssertionError"
               /\ (~QueueGone(c) /\ f = "none" /\ chans[ctx[c].resultsid].items # <<>>)
                     => LET obj == <<Head(chans[ctx[c].resultsid].items), None>>
                        IN  /\ obj[2] = None
                            /\ run_result(obj, frame[c].exc_wrapper).exc # "AssertionError"
                            /\ obj[1][2] # None
                                  => (obj[1][1] = None /\ frame[c].exc_wrapper.set)]_vars

\* C18 witness: the function returned but the put of its result failed; the
\* envelope retrieved carried that error with an empty value, the execution call
\* had reported it, and run() raised it from the ExecutionFailed.
C18_Witness ==
    \E c \in Ctx :
        /\ Completed(c, "run") /\ CallReturned(c)
        /\ frame[c].got = 1
        /\ last[c].kind = "raise" /\ last[c].exc = "NotShareableError"
        /\ last[c].cause = ExecutionFailed("NotShareableError")

\* C19: a queue never holds more than one envelope, and holds one only while the
\* run() of the context that holds it is in its retrieval loop, the envelope
\* being the one that run()'s own task wrote: the queue of a context is empty
\* whenever no run() is in progress on it; and a run() that retrieved an envelope
\* ends with the outcome of its own task (the value its call returned, or the
\* exception left unhandled by it), never with that of an earlier task.
C19_NoStaleEnvelope ==
    /\ \A q \in ChIds : Len(chans[q].items) <= 1
    /\ \A c \in Ctx :
          (frame[c].pc = "idle" /\ ctx[c].resultsid # NoId)
          => chans[ctx[c].resultsid].items = <<>>
    /\ \A q \in ChIds :
          chans[q].items # <<>>
          => \E c \in Holder(q) : /\ frame[c].pc = "get"
                                  /\ chans[q].items = <<OwnEnvelope(c)>>
    /\ \A c \in Ctx :
          (Completed(c, "run") /\ Did(c, "get", "ok"))
          => /\ last[c] = Ended("run", run_result(<<OwnEnvelope(c), None>>,
                                                  frame[c].exc_wrapper))
             /\ last[c].kind = "return"
                   => (CallReturned(c) /\ last[c].val = frame[c].prod.val)
             /\ last[c].kind = "raise"
                   => last[c].exc = frame[c].exc_wrapper.excinfo

\* C19 witness: on a context whose interpreter an earlier task has incremented
\* (its envelope carried 1), a later run() of another task has returned that
\* task's own value 7, and the queue is empty again.
C19_Witness ==
    \E c \in Ctx :
        /\ Completed(c, "run") /\ TaskIs(c, "one")
        /\ last[c].kind = "return" /\ last[c].val = "7"
        /\ ctx[c].interpid # NoId /\ rts[ctx[c].interpid].counter = 1
        /\ ctx[c].resultsid # NoId /\ chans[ctx[c].resultsid].st = "open"
        /\ chans[ctx[c].resultsid].items = <<>>

====
